---- MODULE Spec2Model ----
(***************************************************************************)
(* Model of src/bot.py: the nutrition ledger (tables users and entries),   *)
(* the message handlers start, add_product and report, and the daily       *)
(* broadcast scheduled_daily_report.                                       *)
(*                                                                         *)
(* Scheduling.  All coroutines run on one asyncio event loop, so code      *)
(* between two awaits is one atomic step.  start, add_product and report   *)
(* touch the database only before their single trailing await              *)
(* (reply_text), hence each is one action; the application processes       *)
(* updates one at a time, so the next handler starts when the awaited      *)
(* reply of the current one is over.  scheduled_daily_report runs as a job *)
(* of its own and awaits send_message once per user of its snapshot;       *)
(* handlers run while a send is pending, so the broadcast is one action    *)
(* per suspension point.                                                   *)
(*                                                                         *)
(* Numbers.  Nutrient values are REAL in the source; here they are         *)
(* integers (hundredths), so sums are exact.  A quantity is a float and    *)
(* keeps the one non-number that float() accepts and the range test lets   *)
(* through (nan).                                                          *)
(***************************************************************************)
EXTENDS Integers, Sequences, FiniteSets

\* ------------------------------------------------------------------ bounds
MaxDay == 2
MaxEntries == 2

UserIds == {1, 2}
ChatIds == {1, 2}

\* --------------------------------------------------------- program constants
\* add_product: "if amount <= 0 or amount > 5000"
MaxAmount == 5000

VARIABLES
    users,      \* table users: sequence of rows [user_id, chat_id]
    entries,    \* table entries: sequence of rows, in rowid order
    today,      \* the calendar date datetime.now() yields
    current,    \* the update being processed: its handler and the outcome
    schedPc,    \* scheduled_daily_report: "idle", or "sending" at its await
    snapshot,   \* its local `users` (fetchall of the users table)
    cycleDate,  \* its local date_str
    idx,        \* position of its for loop in snapshot
    pending,    \* the message handed to the send_message being awaited
    sent,       \* messages of this cycle whose send_message returned
    submitted   \* history: the successful add_product submissions, in order

vars == <<users, entries, today, current, schedPc, snapshot, cycleDate,
          idx, pending, sent, submitted>>

ledger == <<users, entries>>
sched == <<schedPc, snapshot, cycleDate, idx, pending, sent>>

\* -------------------------------------------------------------- floats
Num(n) == [kind |-> "num", v |-> n]
NaN == [kind |-> "nan", v |-> 0]
SqlNull == [kind |-> "null", v |-> 0]
ValueError == [kind |-> "ValueError", v |-> 0]

\* The numerals the inputs use, with the value float() gives each.
NumeralValue ==
    [t \in {"-5", "0", "200", "5000", "5001"} |->
        CASE t = "-5" -> 0 - 5
          [] t = "0" -> 0
          [] t = "200" -> 200
          [] t = "5000" -> 5000
          [] t = "5001" -> 5001]

\* float(parts[-1]): a number, nan, or ValueError for any other word.
ParseFloat(t) ==
    IF t \in DOMAIN NumeralValue THEN Num(NumeralValue[t])
    ELSE IF t = "nan" THEN NaN
    ELSE ValueError

\* amount <= 0 or amount > 5000: every comparison with nan is False.
OutOfRange(amount) ==
    amount.kind = "num" /\ (amount.v <= 0 \/ amount.v > MaxAmount)

\* sqlite3 binds a float nan as NULL; any other float is stored as it is.
SqlReal(x) == IF x.kind = "nan" THEN SqlNull ELSE x

\* -------------------------------------------------------------- strings
\* str.lower() on the words the inputs use.
LowerWord(w) ==
    CASE w = "Rice" -> "rice"
      [] w = "Apple" -> "apple"
      [] OTHER -> w

\* update.message.text.lower().strip().split()
Tokens(text) == [i \in 1..Len(text) |-> LowerWord(text[i])]

\* str.capitalize() of a lower-case word.
CapitalizeWord(w) ==
    CASE w = "rice" -> "Rice"
      [] w = "apple" -> "Apple"
      [] w = "chicken" -> "Chicken"
      [] OTHER -> w

\* product.capitalize(): the name is the words joined by blanks, so only the
\* first word changes.
Capitalize(product) ==
    IF Len(product) = 0 THEN product
    ELSE [i \in 1..Len(product) |->
            IF i = 1 THEN CapitalizeWord(product[i]) ELSE product[i]]

\* ' '.join(parts[:-1]), kept as the sequence of words
ProductName(parts) == SubSeq(parts, 1, Len(parts) - 1)

\* -------------------------------------------------------------- inputs
\* Message texts, as the words between blanks.
Texts ==
    { <<>>, <<"apple">>, <<"rice", "abc">>, <<"rice", "0">>,
      <<"rice", "-5">>, <<"rice", "5001">>,
      <<"Rice", "200">>, <<"apple", "nan">> }

AcceptedTexts == { <<"Rice", "200">>, <<"apple", "nan">> }

\* What the nutrition service answers for a product (hundredths).
Nutrients(cal, prot, fat, carb) ==
    [calories |-> cal, proteins |-> prot, fats |-> fat, carbs |-> carb]

EdamamData(product) ==
    IF product = <<"rice">> THEN Nutrients(26000, 540, 60, 5600)
    ELSE Nutrients(10400, 50, 30, 2800)

\* The collaborators' outcomes for one submission: translator.translate
\* (tr), get_nutrition (lk) and the database statements (db).
Outcome(tr, lk, db) == [tr |-> tr, lk |-> lk, db |-> db]

Outcomes ==
    { Outcome("ok", "ok", "ok"), Outcome("raise", "ok", "ok"),
      Outcome("empty", "ok", "ok"), Outcome("ok", "none", "ok"),
      Outcome("ok", "ok", "users_insert"),
      Outcome("ok", "ok", "entries_insert") }

\* -------------------------------------------------------------- ledger
\* SELECT * FROM users WHERE user_id = ?  ... fetchone() is not None
UserExists(tbl, uid) == \E i \in 1..Len(tbl) : tbl[i].user_id = uid

\* Mutant of RegisterUser: INSERT OR REPLACE, the row of a known user is
\* overwritten with the chat of the current update.
RegisterUserUpsert(tbl, uid, cid) ==
    IF UserExists(tbl, uid)
    THEN [i \in 1..Len(tbl) |->
            IF tbl[i].user_id = uid
            THEN [user_id |-> uid, chat_id |-> cid] ELSE tbl[i]]
    ELSE Append(tbl, [user_id |-> uid, chat_id |-> cid])

\* The registration block of start and add_product: insert the row unless
\* a row with this user_id is there already, then commit.
RegisterUser(tbl, uid, cid) ==
    IF UserExists(tbl, uid) THEN tbl
    ELSE Append(tbl, [user_id |-> uid, chat_id |-> cid])

\* Mutant of InsertEntry: the new row takes the place of the newest row.
InsertEntryReplacing(tbl, uid, d, product, amount, n) ==
    Append(SubSeq(tbl, 1, Len(tbl) - 1),
           [entry_id |-> Len(tbl) + 1, user_id |-> uid, date |-> d,
            product |-> product, amount |-> SqlReal(amount),
            calories |-> n.calories, proteins |-> n.proteins,
            fats |-> n.fats, carbs |-> n.carbs])

\* INSERT INTO entries (...) VALUES (...); entry_id is AUTOINCREMENT and no
\* row is ever deleted, so the next id is the row count plus one.
InsertEntry(tbl, uid, d, product, amount, n) ==
    Append(tbl, [entry_id |-> Len(tbl) + 1, user_id |-> uid, date |-> d,
                 product |-> product, amount |-> SqlReal(amount),
                 calories |-> n.calories, proteins |-> n.proteins,
                 fats |-> n.fats, carbs |-> n.carbs])

\* Mutant of EntriesFor: the WHERE clause lacks the user.
EntriesForAnyUser(tbl, uid, d) == SelectSeq(tbl, LAMBDA r : r.date = d)

\* SELECT product, amount, calories, proteins, fats, carbs FROM entries
\* WHERE user_id = ? AND date = ?   (rows come back in rowid order)
EntriesFor(tbl, uid, d) ==
    SelectSeq(tbl, LAMBDA r : r.user_id = uid /\ r.date = d)

\* -------------------------------------------------------------- reports
\* The four running totals of the report loop.
RECURSIVE Aggregate(_)
Aggregate(rows) ==
    IF rows = <<>> THEN Nutrients(0, 0, 0, 0)
    ELSE LET t == Aggregate(SubSeq(rows, 1, Len(rows) - 1))
             r == rows[Len(rows)]
         IN  Nutrients(t.calories + r.calories, t.proteins + r.proteins,
                       t.fats + r.fats, t.carbs + r.carbs)

\* One "- Product: amount ..." line of a report.
ReportLine(r) ==
    [product |-> Capitalize(r.product), amount |-> r.amount,
     calories |-> r.calories, proteins |-> r.proteins,
     fats |-> r.fats, carbs |-> r.carbs]

NothingToday == [kind |-> "nothing_today"]

\* Mutant of DayMessage: no branch for the empty day.
DayMessageAlwaysReport(title, d, rows) ==
    [kind |-> "report", title |-> title, date |-> d,
     items |-> [i \in 1..Len(rows) |-> ReportLine(rows[i])],
     totals |-> Aggregate(rows)]

\* The text report and scheduled_daily_report build from the rows of one
\* (user, date): the fixed message when there are none, else the title, one
\* line per row and the totals.
DayMessage(title, d, rows) ==
    IF rows = <<>> THEN NothingToday
    ELSE [kind |-> "report", title |-> title, date |-> d,
          items |-> [i \in 1..Len(rows) |-> ReportLine(rows[i])],
          totals |-> Aggregate(rows)]

Reply(kind) == [kind |-> kind]
NoReply == [kind |-> "none"]

\* -------------------------------------------------------------- add_product
\* Where add_product stops for the given text and collaborator outcomes:
\* the reply of the early return it takes, or "accepted".
Validate(text, tr, lk) ==
    LET parts == Tokens(text)
        amount == ParseFloat(parts[Len(parts)])
    IN  IF Len(parts) = 0 THEN "ask_input"
        ELSE IF Len(parts) < 2 THEN "ask_product_and_amount"
        ELSE IF amount = ValueError THEN "bad_amount"
        ELSE IF OutOfRange(amount) THEN "amount_out_of_range"
        ELSE IF tr = "raise" THEN "translate_error"
        ELSE IF tr = "empty" THEN "translate_empty"
        ELSE IF lk = "none" THEN "lookup_failed"
        ELSE "accepted"

\* Mutant of StoreSubmission: the entry is inserted without the
\* registration block.
StoreSubmissionUnregistered(us, es, uid, cid, d, product, amount, n, db) ==
    IF db = "entries_insert"
    THEN [users |-> us, entries |-> es, raised |-> "entries_insert"]
    ELSE [users |-> us,
          entries |-> InsertEntry(es, uid, d, product, amount, n),
          raised |-> "none"]

\* The ledger writes of an accepted submission, in source order: register
\* the user and commit; insert the entry and commit.  db names the statement
\* that raises sqlite3.Error, if any; the handler then ends by the exception.
StoreSubmission(us, es, uid, cid, d, product, amount, n, db) ==
    IF db = "users_insert" /\ ~UserExists(us, uid)
    THEN [users |-> us, entries |-> es, raised |-> "users_insert"]
    ELSE IF db = "entries_insert"
    THEN [users |-> RegisterUser(us, uid, cid), entries |-> es,
          raised |-> "entries_insert"]
    ELSE [users |-> RegisterUser(us, uid, cid),
          entries |-> InsertEntry(es, uid, d, product, amount, n),
          raised |-> "none"]

\* Mutant of AddProductResult: the registration block runs first, ahead of
\* the checks of the input.
AddProductResultRegisterFirst(us, es, uid, cid, d, text, tr, lk, db) ==
    LET verdict == Validate(text, tr, lk)
        parts == Tokens(text)
        product == ProductName(parts)
        amount == ParseFloat(parts[Len(parts)])
        n == EdamamData(product)
        st == StoreSubmission(us, es, uid, cid, d, product, amount, n, db)
    IN  IF verdict # "accepted"
        THEN [users |-> RegisterUser(us, uid, cid), entries |-> es,
              raised |-> "none", reply |-> Reply(verdict)]
        ELSE IF st.raised # "none"
        THEN [users |-> st.users, entries |-> st.entries,
              raised |-> st.raised, reply |-> NoReply]
        ELSE [users |-> st.users, entries |-> st.entries, raised |-> "none",
              reply |-> [kind |-> "added", product |-> product,
                         amount |-> amount, nutrition |-> n]]

\* add_product as a whole: the ledger after it, its reply, what it raised.
AddProductResult(us, es, uid, cid, d, text, tr, lk, db) ==
    LET verdict == Validate(text, tr, lk)
        parts == Tokens(text)
        product == ProductName(parts)
        amount == ParseFloat(parts[Len(parts)])
        n == EdamamData(product)
        st == StoreSubmission(us, es, uid, cid, d, product, amount, n, db)
    IN  IF verdict # "accepted"
        THEN [users |-> us, entries |-> es, raised |-> "none",
              reply |-> Reply(verdict)]
        ELSE IF st.raised # "none"
        THEN [users |-> st.users, entries |-> st.entries,
              raised |-> st.raised, reply |-> NoReply]
        ELSE [users |-> st.users, entries |-> st.entries, raised |-> "none",
              reply |-> [kind |-> "added", product |-> product,
                         amount |-> amount, nutrition |-> n]]

\* -------------------------------------------------------------- state
\* An update in processing: the handler it went to, effective_user.id and
\* effective_chat.id, the statement that raised (if any) and the reply.
Event(handler, uid, cid, raised, reply) ==
    [handler |-> handler, user |-> uid, chat |-> cid, raised |-> raised,
     reply |-> reply]

NoEvent == Event("none", 0, 0, "none", NoReply)

NoMessage == [user_id |-> 0, chat_id |-> 0, readAt |-> 0, msg |-> NoReply]

\* State after the module-level code has run on a fresh database: both
\* tables exist and are empty, and no job has fired.
Init ==
    /\ users = <<>>
    /\ entries = <<>>
    /\ today = 1
    /\ current = NoEvent
    /\ schedPc = "idle"
    /\ snapshot = <<>>
    /\ cycleDate = 0
    /\ idx = 0
    /\ pending = NoMessage
    /\ sent = <<>>
    /\ submitted = <<>>

\* -------------------------------------------------------------- handlers
\* /start: register the sender, then send the welcome text.
Start(uid, cid, db) ==
    /\ current = NoEvent
    /\ IF db = "users_insert" /\ ~UserExists(users, uid)
       THEN /\ users' = users
            /\ current' = Event("start", uid, cid, "users_insert", NoReply)
       ELSE /\ users' = RegisterUser(users, uid, cid)
            /\ current' = Event("start", uid, cid, "none", Reply("welcome"))
    /\ UNCHANGED <<entries, today, sched, submitted>>

\* A text message that is no command.
AddProduct(uid, cid, text, tr, lk, db) ==
    LET r == AddProductResult(users, entries, uid, cid, today, text, tr, lk, db)
    IN  /\ current = NoEvent
        /\ Len(r.entries) <= MaxEntries
        /\ users' = r.users
        /\ entries' = r.entries
        /\ current' = Event("add_product", uid, cid, r.raised, r.reply)
        /\ submitted' =
             IF r.reply.kind = "added"
             THEN Append(submitted,
                         [user |-> uid, date |-> today,
                          product |-> r.reply.product,
                          amount |-> r.reply.amount,
                          nutrition |-> r.reply.nutrition])
             ELSE submitted
        /\ UNCHANGED <<today, sched>>

\* /report: today's rows of the sender, as one reply.
Report(uid, cid) ==
    /\ current = NoEvent
    /\ current' = Event("report", uid, cid, "none",
                        DayMessage("report", today,
                                   EntriesFor(entries, uid, today)))
    /\ UNCHANGED <<users, entries, today, sched, submitted>>

\* The awaited reply_text is over, or the handler's exception has been logged:
\* the application takes the next update.
UpdateDone ==
    /\ current # NoEvent
    /\ current' = NoEvent
    /\ UNCHANGED <<users, entries, today, sched, submitted>>

\* -------------------------------------------------------------- broadcast
\* users = cursor.fetchall(): a list of the rows at that instant.
UsersSnapshot(tbl) == tbl

\* Mutant of LoopUsers: the loop looks at the table as it is now.
LoopUsersLive(snap, tbl) == tbl

\* for (chat_id, user_id) in users: the loop runs over the local list.
LoopUsers(snap, tbl) == snap

\* Mutant of SchedMessage: the date is taken anew for every user.
SchedMessageToday(es, row, d, at) ==
    [user_id |-> row.user_id, chat_id |-> row.chat_id, readAt |-> at,
     msg |-> DayMessage("auto", today, EntriesFor(es, row.user_id, today))]

\* One iteration up to its await: read the user's rows of the cycle date,
\* build the message and hand it to send_message.
SchedMessage(es, row, d, at) ==
    [user_id |-> row.user_id, chat_id |-> row.chat_id, readAt |-> at,
     msg |-> DayMessage("auto", d, EntriesFor(es, row.user_id, d))]

\* The loop from position i: the next suspension point, or, past the last
\* user, the return of the coroutine, with which its locals are gone.
SchedContinue(i, snap, d) ==
    IF i > Len(LoopUsers(snap, users))
    THEN /\ schedPc' = "idle"
         /\ snapshot' = <<>>
         /\ cycleDate' = 0
         /\ idx' = 0
         /\ pending' = NoMessage
         /\ sent' = <<>>
    ELSE /\ schedPc' = "sending"
         /\ snapshot' = snap
         /\ cycleDate' = d
         /\ idx' = i
         /\ pending' = SchedMessage(entries, LoopUsers(snap, users)[i], d,
                                    Len(submitted))
         /\ sent' = IF i = 1 THEN <<>> ELSE Append(sent, pending)

\* The daily job fires: snapshot of the users, the date, and the loop up to
\* its first await.  At most one instance of the job runs at a time.
SchedFire ==
    /\ schedPc = "idle"
    /\ SchedContinue(1, UsersSnapshot(users), today)
    /\ UNCHANGED <<users, entries, today, current, submitted>>

\* The awaited send_message returns: log, and on to the next user.
SendOk ==
    /\ schedPc = "sending"
    /\ SchedContinue(idx + 1, snapshot, cycleDate)
    /\ UNCHANGED <<users, entries, today, current, submitted>>

\* The awaited send_message raises: nothing in scheduled_daily_report or
\* job_callback catches it, so the coroutine ends there.
SendFail ==
    /\ schedPc = "sending"
    /\ SchedContinue(Len(snapshot) + 1, snapshot, cycleDate)
    /\ UNCHANGED <<users, entries, today, current, submitted>>

\* Midnight passes.
Tick ==
    /\ today < MaxDay
    /\ today' = today + 1
    /\ UNCHANGED <<users, entries, current, sched, submitted>>

\* The handlers on every input, and the clock.
Next ==
    \/ \E uid \in UserIds, cid \in ChatIds, db \in {"ok", "users_insert"} :
          Start(uid, cid, db)
    \/ \E uid \in UserIds, cid \in ChatIds, text \in Texts, o \in Outcomes :
          AddProduct(uid, cid, text, o.tr, o.lk, o.db)
    \/ \E uid \in UserIds, cid \in ChatIds : Report(uid, cid)
    \/ UpdateDone
    \/ Tick

Spec == Init /\ [][Next]_vars

\* The daily job next to the handlers.  The handlers get the inputs that
\* reach the ledger (a rejected or failed update leaves no trace the job
\* could read), sent from private chats, where effective_chat.id is
\* effective_user.id.
NextBroadcast ==
    \/ \E uid \in UserIds : Start(uid, uid, "ok")
    \/ \E uid \in UserIds, text \in AcceptedTexts :
          AddProduct(uid, uid, text, "ok", "ok", "ok")
    \/ \E uid \in UserIds : Report(uid, uid)
    \/ UpdateDone
    \/ SchedFire
    \/ SendOk
    \/ SendFail
    \/ Tick

SpecBroadcast == Init /\ [][NextBroadcast]_vars

\* ================================================================ claims
\* What the claims compare the program with: the history of submissions.

\* The submissions of user u on date d, in order.
SubmittedBy(log, u, d) == SelectSeq(log, LAMBDA e : e.user = u /\ e.date = d)

RECURSIVE SumField(_, _)
SumField(log, f) ==
    IF log = <<>> THEN 0 ELSE log[1].nutrition[f] + SumField(Tail(log), f)

\* The field-wise sums of the nutrient values of the submissions in log.
ExpectedTotals(log) ==
    [calories |-> SumField(log, "calories"),
     proteins |-> SumField(log, "proteins"),
     fats |-> SumField(log, "fats"),
     carbs |-> SumField(log, "carbs")]

\* The rows the submissions in log amount to, as the entries query lists them.
ExpectedRows(log) ==
    [i \in 1..Len(log) |->
        [product |-> log[i].product, amount |-> SqlReal(log[i].amount),
         calories |-> log[i].nutrition.calories,
         proteins |-> log[i].nutrition.proteins,
         fats |-> log[i].nutrition.fats,
         carbs |-> log[i].nutrition.carbs]]

\* The columns the entries query selects.
QueryRows(rows) ==
    [i \in 1..Len(rows) |->
        [product |-> rows[i].product, amount |-> rows[i].amount,
         calories |-> rows[i].calories, proteins |-> rows[i].proteins,
         fats |-> rows[i].fats, carbs |-> rows[i].carbs]]

\* The message a user with the submissions in log is due on date d.
ExpectedMessage(title, d, log) ==
    IF Len(log) = 0 THEN [kind |-> "nothing_today"]
    ELSE [kind |-> "report", title |-> title, date |-> d,
          items |-> [i \in 1..Len(log) |->
                       [product |-> Capitalize(log[i].product),
                        amount |-> SqlReal(log[i].amount),
                        calories |-> log[i].nutrition.calories,
                        proteins |-> log[i].nutrition.proteins,
                        fats |-> log[i].nutrition.fats,
                        carbs |-> log[i].nutrition.carbs]],
          totals |-> ExpectedTotals(log)]

\* new keeps every row of old, unchanged and in place.
Extends(old, new) ==
    /\ Len(new) >= Len(old)
    /\ \A i \in 1..Len(old) : new[i] = old[i]

\* The messages of the running cycle: the delivered ones and the one in flight.
CycleMessages ==
    {sent[i] : i \in 1..Len(sent)}
        \cup (IF schedPc = "sending" THEN {pending} ELSE {})

Rejections ==
    {"ask_input", "ask_product_and_amount", "bad_amount",
     "amount_out_of_range", "translate_error", "translate_empty",
     "lookup_failed"}

\* C1: the totals report computes for user u on date d are the field-wise
\* sums of the nutrient values of exactly the submissions u made on d,
\* whatever other users submitted and whatever was submitted on other dates;
\* and a report reply carries these totals.
C1_ReportTotals ==
    /\ \A u \in UserIds, d \in 1..MaxDay :
          Aggregate(EntriesFor(entries, u, d))
              = ExpectedTotals(SubmittedBy(submitted, u, d))
    /\ (current.handler = "report" /\ current.reply.kind = "report")
          => current.reply.totals
                 = ExpectedTotals(SubmittedBy(submitted, current.user,
                                              current.reply.date))

\* A report with one line is being sent while the ledger holds an entry of
\* another user as well.
C1_Witness ==
    /\ current.handler = "report"
    /\ current.reply.kind = "report"
    /\ Len(current.reply.items) = 1
    /\ \E i \in 1..Len(entries) : entries[i].user_id # current.user

\* C2: a send_message that raises for one user does not end the cycle: the
\* job stops only after the last user of its snapshot had their send.
C2_FailureDoesNotAbort ==
    [][(schedPc = "sending" /\ schedPc' = "idle") => idx = Len(snapshot)]_vars

\* C3: every row of entries has a user_id that is in users.
C3_EntryHasUser ==
    \A i \in 1..Len(entries) :
        \E j \in 1..Len(users) : users[j].user_id = entries[i].user_id

\* Two users have an entry each; the latest update was a submission.
C3_Witness ==
    /\ Len(entries) = 2
    /\ entries[1].user_id # entries[2].user_id
    /\ current.handler = "add_product"

\* C4: users never holds two rows of one user_id; a row, once there, is
\* never changed or removed; a new row carries the user and chat of the
\* start or add_product update that registered it.
C4_RegistrationIdempotent ==
    [][/\ Extends(users, users')
       /\ \A i, j \in 1..Len(users') :
             users'[i].user_id = users'[j].user_id => i = j
       /\ Len(users') > Len(users) =>
             /\ Len(users') = Len(users) + 1
             /\ current'.handler \in {"start", "add_product"}
             /\ users'[Len(users')]
                    = [user_id |-> current'.user, chat_id |-> current'.chat]
      ]_vars

\* A registered user's start has run again, from another chat.
C4_Witness ==
    /\ current.handler = "start"
    /\ current.reply.kind = "welcome"
    /\ \E i \in 1..Len(users) :
          users[i].user_id = current.user /\ users[i].chat_id # current.chat

\* C5: when the entry insert of a submission raises, the ledger is what it
\* was before the submission.
C5_FailedInsertLeavesLedger ==
    [][(current = NoEvent /\ current'.raised = "entries_insert")
          => (users' = users /\ entries' = entries)]_vars

\* C6: a row of entries stays, unchanged, in every later state, and the
\* entries query for (user, date) returns exactly the submissions made for
\* (user, date), in order.
C6_EntriesImmutable ==
    [][/\ Extends(entries, entries')
       /\ \A u \in UserIds, d \in 1..MaxDay :
             QueryRows(EntriesFor(entries', u, d))
                 = ExpectedRows(SubmittedBy(submitted', u, d))
      ]_vars

\* Two entries of one user and date, read on a later day.
C6_Witness ==
    /\ \E u \in UserIds : Len(EntriesFor(entries, u, 1)) = 2
    /\ today = 2

\* C7: report and the broadcast send a user without entries for the date
\* exactly the fixed message, and a user with entries a report with one
\* line per entry and the totals.
C7_EmptyDayBranch ==
    [][/\ (current = NoEvent /\ current'.handler = "report") =>
             LET log == SubmittedBy(submitted, current'.user, today)
             IN  IF log = <<>>
                 THEN current'.reply = [kind |-> "nothing_today"]
                 ELSE /\ current'.reply.kind = "report"
                      /\ Len(current'.reply.items) = Len(log)
                      /\ current'.reply.totals = ExpectedTotals(log)
       /\ (schedPc' = "sending" /\ idx' # idx) =>
             LET log == SubmittedBy(submitted, pending'.user_id, cycleDate')
             IN  IF log = <<>>
                 THEN pending'.msg = [kind |-> "nothing_today"]
                 ELSE /\ pending'.msg.kind = "report"
                      /\ Len(pending'.msg.items) = Len(log)
                      /\ pending'.msg.totals = ExpectedTotals(log)
      ]_vars

\* One cycle has sent a report to one user and the fixed message to the next.
C7_Witness ==
    /\ schedPc = "sending"
    /\ pending.msg.kind = "nothing_today"
    /\ Len(sent) = 1
    /\ sent[1].msg.kind = "report"

\* C8: a submission that add_product rejects leaves users and entries as
\* they were.
C8_RejectionChangesNothing ==
    [][(/\ current = NoEvent
        /\ current'.handler = "add_product"
        /\ current'.reply.kind \in Rejections)
          => (users' = users /\ entries' = entries)]_vars

\* An unregistered user's submission was rejected for its quantity.
C8_Witness ==
    /\ current.handler = "add_product"
    /\ current.reply.kind = "amount_out_of_range"
    /\ \A i \in 1..Len(users) : users[i].user_id # current.user

\* C9: the snapshot of a cycle is the users table as it was when the job
\* fired and stays so; every message of the cycle goes to a row of the
\* snapshot, none to a user registered since.
C9_RecipientsFromSnapshot ==
    [][/\ (schedPc = "idle" /\ schedPc' = "sending") => snapshot' = users
       /\ (schedPc = "sending" /\ schedPc' = "sending") => snapshot' = snapshot
       /\ \A m \in CycleMessages' :
             /\ \E i \in 1..Len(snapshot') :
                   snapshot'[i] = [user_id |-> m.user_id, chat_id |-> m.chat_id]
             /\ \A j \in (Len(snapshot') + 1)..Len(users') :
                   users'[j].user_id # m.user_id
      ]_vars

\* A user was registered while the send to the last user of the snapshot is
\* pending.
C9_Witness ==
    /\ schedPc = "sending"
    /\ idx = Len(snapshot)
    /\ Len(users) > Len(snapshot)

\* C10: a message of the cycle is the one due for the submissions its user
\* had made on the cycle date when the job read the user's entries; and a
\* step of the job leaves the ledger as it is.
C10_BroadcastReadsOnce ==
    [][/\ (sched' # sched) => (users' = users /\ entries' = entries)
       /\ \A m \in CycleMessages' :
             m.msg = ExpectedMessage("auto", cycleDate',
                         SubmittedBy(SubSeq(submitted', 1, m.readAt),
                                     m.user_id, cycleDate'))
      ]_vars

\* A report is in the cycle, and its user has submitted again since.
C10_Witness ==
    /\ schedPc = "sending"
    /\ \E m \in CycleMessages :
          /\ m.msg.kind = "report"
          /\ \E k \in (m.readAt + 1)..Len(submitted) :
                submitted[k].user = m.user_id /\ submitted[k].date = cycleDate

====
